---- MODULE Spec2Model ----
(***************************************************************************)
(* The chat-session / response-visualization pipeline of summon-park-ch:   *)
(* the JourneyUI page (src/src/pages/journey-chat.tsx) and the             *)
(* DataVisualization component (src/src/components/ui/DataVisualization    *)
(* .tsx, the definition at lines 250-340).                                 *)
(*                                                                         *)
(* JavaScript strings typed by the user are sequences of one-character     *)
(* strings, so that String.prototype.trim is computed, not assumed (a code *)
(* point that a TLA+ string cannot hold is written by its name, "U+00A0"). *)
(* An optional value (undefined / null or a value) is the empty sequence   *)
(* None or the one-element sequence Some(v).  A value of a response body   *)
(* is a tagged record (number, string, null, object, array, undefined), so *)
(* that a body of any shape can be rendered as the code renders it; a      *)
(* string of a body is the sequence of its UTF-16 code units, as numbers.  *)
(***************************************************************************)
EXTENDS Integers, Sequences, FiniteSets, TLC

\* ------------------------------------------------------------------ bounds
\* The number of non-blank submissions a behaviour may hold.
MaxSubmits == 2
\* The last reading of the millisecond clock (Date.now()).
MaxClock == 1
\* The largest number of rows of a query result.
MaxRows == 2

\* ------------------------------------------------------- optional values
None == <<>>
Some(v) == <<v>>
IsSome(o) == Len(o) = 1
Get(o) == o[1]

\* ------------------------------------------------------------- strings
\* The characters String.prototype.trim strips: WhiteSpace (tab, VT, FF,
\* space, no-break space, ZWNBSP, the category Zs) and LineTerminator (LF,
\* CR, LS, PS).
WhiteSpace ==
  { "\t", "U+000B", "\f", " ", "U+00A0", "U+FEFF", "U+1680", "U+2000",
    "U+2001", "U+2002", "U+2003", "U+2004", "U+2005", "U+2006", "U+2007",
    "U+2008", "U+2009", "U+200A", "U+202F", "U+205F", "U+3000" }

LineTerminator == { "\n", "\r", "U+2028", "U+2029" }

IsSpace(c) == c \in WhiteSpace \cup LineTerminator

RECURSIVE TrimStart(_)
TrimStart(s) ==
  IF s # <<>> /\ IsSpace(Head(s)) THEN TrimStart(Tail(s)) ELSE s

RECURSIVE TrimEnd(_)
TrimEnd(s) ==
  IF s # <<>> /\ IsSpace(s[Len(s)]) THEN TrimEnd(SubSeq(s, 1, Len(s) - 1)) ELSE s

\* userInput.trim()
Trim(s) == TrimEnd(TrimStart(s))

\* The texts the user may have in the input field.
Inputs == { <<>>, <<"\t">>, <<"q">>, <<" ", "q">> }

\* ---------------------------------------------------- backend responses
\* A value parsed from a response body is a tagged record, so that the kinds
\* can be told apart and compared: a cell of a row is a (string | number), a
\* row and a result are arrays.  A string is the sequence of its UTF-16 code
\* units (77 is "M"), which is what .length and [k] count; a character above
\* U+FFFF is two of them, a surrogate pair.
Num(n) == [t |-> "number", n |-> n, s |-> <<>>, items |-> <<>>]
Str(s) == [t |-> "string", n |-> 0, s |-> s, items |-> <<>>]
Arr(items) == [t |-> "array", n |-> 0, s |-> <<>>, items |-> items]
Null == [t |-> "null", n |-> 0, s |-> <<>>, items |-> <<>>]
\* The object without properties, {}.
Obj == [t |-> "object", n |-> 0, s |-> <<>>, items |-> <<>>]
\* What the read of a missing element or property gives.
Undefined == [t |-> "undefined", n |-> 0, s |-> <<>>, items |-> <<>>]

\* The rows the backend answers with: the first MaxRows rows of a table.
Table ==
  << Arr(<<Str(<<77, 111, 110>>), Num(3)>>),   \* ["Mon", 3]
     Arr(<<Str(<<84, 117, 101>>), Num(5)>>),   \* ["Tue", 5]
     Arr(<<Str(<<87, 101, 100>>), Num(2)>>),   \* ["Wed", 2]
     Arr(<<Str(<<84, 104, 117>>), Num(7)>>) >> \* ["Thu", 7]

\* A one-row answer whose column 1 is not a number: [["up", "n/a"]].
NonNumericResult == Arr(<< Arr(<<Str(<<117, 112>>), Str(<<110, 47, 97>>)>>) >>)

QueryResults ==
  { Arr(SubSeq(Table, 1, n)) : n \in 0..MaxRows } \cup {NonNumericResult}

\* Results that break the row/column contract of query_results: not an
\* array (an object, a string); a row that is null, a number or a string,
\* alone or among rows; rows with a column or all columns missing.
MalformedResults ==
  { Obj,                                                    \* {}
    Str(<<97>>),                                            \* "a"
    Arr(<<Null>>),                                          \* [null]
    Arr(<<Num(5)>>),                                        \* [5]
    Arr(<<Str(<<97, 98>>)>>),                               \* ["ab"]
    Arr(<<Arr(<<Str(<<77, 111, 110>>)>>)>>),                \* [["Mon"]]
    Arr(<<Arr(<<Str(<<77, 111, 110>>), Num(3)>>), Num(5)>>), \* [["Mon",3],5]
    Arr(<<Str(<<55357, 56832, 98>>), Str(<<99, 100>>)>>),   \* ["\uD83D\uDE00b","cd"]
    Arr(<<Arr(<<Str(<<77, 111, 110>>)>>), Arr(<<>>)>>) }    \* [["Mon"],[]]

\* interface BackendResponse: each field optional.
BackendResponse ==
  [ query_results : {None} \cup { Some(r) : r \in QueryResults },
    nl_explanation : {None, Some("Totals per day")},
    error : {None, Some("bad query")} ]

\* The bodies response.json() resolves with: a result, or an error report.
Payloads ==
  { d \in BackendResponse : IsSome(d.error) => d.query_results = None }

\* Bodies that parse as JSON and carry a malformed result.
MalformedPayloads ==
  { [query_results |-> Some(r), nl_explanation |-> Some("Totals per day"),
     error |-> None] : r \in MalformedResults }

\* The generic text of the catch block.
ErrorText == "An error occurred. Please try again."

\* JavaScript truthiness of an optional string: present and not empty.
Truthy(o) == IsSome(o) /\ Get(o) # ""

\* JavaScript truthiness of a parsed value.
TruthyValue(x) ==
  /\ x.t \notin {"undefined", "null"}
  /\ ~(x.t = "number" /\ x.n = 0)
  /\ ~(x.t = "string" /\ x.s = <<>>)

\* x.length === k: an array and a string have a length.
LengthIs(x, k) ==
  \/ x.t = "array" /\ Len(x.items) = k
  \/ x.t = "string" /\ Len(x.s) = k

\* x[k] is a TypeError (x is null or undefined).
ReadThrows(x) == x.t \in {"null", "undefined"}

\* x[k] where the read does not throw: the element of an array, the code
\* unit of a string, or undefined.
Elem(x, k) ==
  IF x.t = "array" /\ k + 1 \in DOMAIN x.items THEN x.items[k + 1]
  ELSE IF x.t = "string" /\ k + 1 \in DOMAIN x.s THEN Str(<<x.s[k + 1]>>)
  ELSE Undefined

\* const [name, value] = x is a TypeError: x is not iterable (an array and a
\* string are).
DestructureThrows(x) == x.t \notin {"array", "string"}

IsHighSurrogate(c) == c \in 55296..56319

IsLowSurrogate(c) == c \in 56320..57343

\* What the iterator of a string yields: its code points, a surrogate pair
\* being one of them, each as a string.
RECURSIVE CodePoints(_)
CodePoints(s) ==
  IF s = <<>> THEN <<>>
  ELSE IF Len(s) >= 2 /\ IsHighSurrogate(s[1]) /\ IsLowSurrogate(s[2])
       THEN <<Str(<<s[1], s[2]>>)>> \o CodePoints(SubSeq(s, 3, Len(s)))
       ELSE <<Str(<<s[1]>>)>> \o CodePoints(Tail(s))

\* The k-th variable of an array destructuring of x (k from 0): the k-th
\* value of x's iterator, or undefined.
Destructured(x, k) ==
  LET values == IF x.t = "array" THEN x.items ELSE CodePoints(x.s)
  IN IF k + 1 \in DOMAIN values THEN values[k + 1] ELSE Undefined

\* React throws on a plain object given as a child, by itself or in an array.
RECURSIVE ChildThrows(_)
ChildThrows(x) ==
  \/ x.t = "object"
  \/ x.t = "array" /\ \E k \in DOMAIN x.items : ChildThrows(x.items[k])

\* ---------------------------------------------------------------- state
VARIABLES
  userInput,     \* useState<string>("")
  responseData,  \* useState<BackendResponse | null>(null)
  isLoading,     \* useState<boolean>(false)
  chatHistory,   \* useState<ChatMessage[]>([])
  chartType,     \* per rendered message: the chartType state of its DataVisualization
  calls,         \* the invocations of callBackendAPI, in order of start
  logCall,       \* per message of chatHistory: the invocation that appended it
  now,           \* the reading of Date.now()
  ignored        \* whether a submit event has found a blank input

vars == <<userInput, responseData, isLoading, chatHistory, chartType, calls,
          logCall, now, ignored>>

ChartModes == {"bar", "pie", "line"}

\* ------------------------------------------------------------ messages
\* const userMessage: ChatMessage = { id: Date.now(), type: 'user', content: userInput }
userMessage(t, input) ==
  [id |-> t, type |-> "user", content |-> input, responseData |-> None]

\* A system message built from the responseData state of the render that
\* started the call (the response before this one, if any), not from data.
systemMessageOfState(t, data) ==
  [id |-> t + 1, type |-> "system", content |-> Get(data.nl_explanation),
   responseData |-> IF IsSome(responseData) THEN responseData ELSE Some(data)]

\* const systemMessage: ChatMessage = { id: Date.now() + 1, type: 'system', ... }
systemMessage(t, data) ==
  [id |-> t + 1, type |-> "system", content |-> Get(data.nl_explanation),
   responseData |-> Some(data)]

\* A catch block that reports the text of the caught error.
errorMessageOfCaught(t) ==
  [id |-> t, type |-> "system", content |-> "API request failed",
   responseData |-> None]

\* const errorMessage: ChatMessage = { id: Date.now(), type: 'system', content: "An error ..." }
errorMessage(t) ==
  [id |-> t, type |-> "system", content |-> ErrorText, responseData |-> None]

\* An updater that puts the new message first: prev => [message, ...prev].
setChatHistoryNewestFirst(prev, message) == <<message>> \o prev

\* setChatHistory(prev => [...prev, message])
setChatHistory(prev, message) == Append(prev, message)

\* ------------------------------------------------------------ rendering
\* What the page shows under one message: nothing, a scalar, or a chart.
Nothing ==
  [kind |-> "none", label |-> None, value |-> None, chart |-> None,
   points |-> <<>>, controls |-> {}]

\* The render threw: React unmounts the page.
Throws ==
  [kind |-> "throws", label |-> None, value |-> None, chart |-> None,
   points |-> <<>>, controls |-> {}]

\* A transform that takes the first row for a header: data.slice(1).map(...).
transformedDataSkipHeader(data) ==
  [k \in 1..(Len(data.items) - 1) |->
     [name |-> Destructured(data.items[k + 1], 0),
      value |-> Destructured(data.items[k + 1], 1)]]

\* data.map(...) is a TypeError: data has no map, or a row does not
\* destructure.
transformedDataThrows(data) ==
  \/ data.t # "array"
  \/ \E k \in DOMAIN data.items : DestructureThrows(data.items[k])

\* const transformedData = data.map(([name, value]) => ({ name, value }))
transformedData(data) ==
  [k \in DOMAIN data.items |->
     [name |-> Destructured(data.items[k], 0),
      value |-> Destructured(data.items[k], 1)]]

\* A renderer whose pie is drawn from a cut of the data.
renderChartPieOfFirst(data, mode) ==
  [kind |-> "chart", label |-> None, value |-> None, chart |-> Some(mode),
   points |-> IF mode = "pie" THEN SubSeq(transformedData(data), 1, 1)
              ELSE transformedData(data),
   controls |-> ChartModes]

\* renderChart(): every mode is drawn from the same transformedData; the mode
\* buttons are part of what is rendered.
renderChart(data, mode) ==
  [kind |-> "chart", label |-> None, value |-> None, chart |-> Some(mode),
   points |-> transformedData(data), controls |-> ChartModes]

\* A component whose line chart leaves out the last row.
DataVisualizationLineCut(data, mode) ==
  IF ~IsSome(data) \/ ~TruthyValue(Get(data)) \/ LengthIs(Get(data), 0) THEN Nothing
  ELSE IF transformedDataThrows(Get(data)) THEN Throws
  ELSE IF mode = "line"
       THEN renderChart(Arr(SubSeq(Get(data).items, 1, Len(Get(data).items) - 1)), mode)
       ELSE renderChart(Get(data), mode)

\* const DataVisualization = ({ data }) => ...: null for no data or no rows
\* (if (!data || data.length === 0) return null), then the transform.
DataVisualization(data, mode) ==
  IF ~IsSome(data) \/ ~TruthyValue(Get(data)) \/ LengthIs(Get(data), 0) THEN Nothing
  ELSE IF transformedDataThrows(Get(data)) THEN Throws
  ELSE renderChart(Get(data), mode)

\* message.type === 'system' && message.responseData?.query_results
\* (an array, even an empty one, is truthy).
HasResults(message) ==
  /\ message.type = "system"
  /\ IsSome(message.responseData)
  /\ IsSome(Get(message.responseData).query_results)
  /\ TruthyValue(Get(Get(message.responseData).query_results))

\* message.responseData.query_results
ResultOf(message) == Get(Get(message.responseData).query_results)

\* The rows of a result that is an array.
RowsOf(message) == ResultOf(message).items

\* The single data point, displayed as text: query_results[0][0] and
\* query_results[0][1] as the children of the heading and the paragraph.
scalarView(result) ==
  LET row == Elem(result, 0) IN
  IF ReadThrows(row) THEN Throws
  ELSE IF ChildThrows(Elem(row, 0)) \/ ChildThrows(Elem(row, 1)) THEN Throws
  ELSE [kind |-> "scalar", label |-> Some(Elem(row, 0)), value |-> Some(Elem(row, 1)),
        chart |-> None, points |-> <<>>, controls |-> {}]

\* The block of JourneyUI's render under message.content.
renderResult(message, mode) ==
  IF HasResults(message)
  THEN IF LengthIs(ResultOf(message), 1)
       THEN scalarView(ResultOf(message))
       ELSE DataVisualization(Get(message.responseData).query_results, mode)
  ELSE Nothing

\* A DataVisualization element is created for the message (its useState runs).
Mounts(message) == HasResults(message) /\ ~LengthIs(ResultOf(message), 1)

\* useState<'bar' | 'pie' | 'line'>('bar') of a newly mounted component.
initialChartType(message) == IF Mounts(message) THEN Some("bar") ELSE None

\* The mode a message is drawn with ("bar" where no component holds one).
ModeOf(i) == IF IsSome(chartType[i]) THEN Get(chartType[i]) ELSE "bar"

\* What is shown under the i-th message of the log.
View(i) == renderResult(chatHistory[i], ModeOf(i))

\* ------------------------------------------------------------- handlers
Init ==
  /\ userInput = <<>>
  /\ responseData = None
  /\ isLoading = FALSE
  /\ chatHistory = <<>>
  /\ chartType = <<>>
  /\ calls = <<>>
  /\ logCall = <<>>
  /\ now = 0
  /\ ignored = FALSE

InsertAt(seq, p, x) == SubSeq(seq, 1, p) \o <<x>> \o SubSeq(seq, p + 1, Len(seq))

\* An updater that puts a system message right after the user message of its
\* own invocation, whatever was appended since.
appendMessagePaired(message, n) ==
  LET p == IF message.type = "system"
           THEN CHOOSE i \in DOMAIN chatHistory :
                  logCall[i] = n /\ chatHistory[i].type = "user"
           ELSE Len(chatHistory)
  IN /\ chatHistory' = InsertAt(chatHistory, p, message)
     /\ chartType' = InsertAt(chartType, p, initialChartType(message))
     /\ logCall' = InsertAt(logCall, p, n)

\* A message of invocation n reaches the log; React mounts what it renders.
appendMessage(message, n) ==
  /\ chatHistory' = setChatHistory(chatHistory, message)
  /\ chartType' = Append(chartType, initialChartType(message))
  /\ logCall' = Append(logCall, n)

\* callBackendAPI up to its first await: the loading flag, the user message,
\* the fetch (fetches counts the requests the invocation has issued).
callBackendAPI(input) ==
  /\ isLoading' = TRUE
  /\ appendMessage(userMessage(now, input), Len(calls) + 1)
  /\ calls' = Append(calls, [userInput |-> input, pc |-> "fetch",
                             outcome |-> "pending", data |-> None,
                             fetches |-> 1])

\* A guard that forgets the trim: if (userInput).
canSubmitUntrimmed(input) == input # <<>>

\* if (userInput.trim())
canSubmit(input) == Trim(input) # <<>>

\* handleSubmit: the submit event of the form.
handleSubmit ==
  IF canSubmit(userInput)
  THEN /\ Len(calls) < MaxSubmits
       /\ callBackendAPI(userInput)
       /\ UNCHANGED <<userInput, responseData, now, ignored>>
  ELSE /\ ignored' = TRUE
       /\ UNCHANGED <<userInput, responseData, isLoading, chatHistory,
                      chartType, calls, logCall, now>>

\* onChange={(e) => setUserInput(e.target.value)}
onChange(s) ==
  /\ s # userInput
  /\ userInput' = s
  /\ UNCHANGED <<responseData, isLoading, chatHistory, chartType, calls,
                 logCall, now, ignored>>

\* A finally block that leaves the loading flag as it is.
finallySkipped == isLoading' = isLoading

\* finally { setIsLoading(false); }
finallyBlock == isLoading' = FALSE

\* A catch block that starts the log afresh: setChatHistory([errorMessage]).
catchBlockResetsLog(n, outcome) ==
  /\ chatHistory' = <<errorMessage(now)>>
  /\ chartType' = <<None>>
  /\ logCall' = <<n>>
  /\ responseData' = Some([query_results |-> None, nl_explanation |-> None,
                           error |-> Some(ErrorText)])
  /\ finallyBlock
  /\ calls' = [calls EXCEPT ![n].pc = "returned", ![n].outcome = outcome]
  /\ UNCHANGED <<userInput, now, ignored>>

\* A catch block that issues the request once more before it reports.
catchBlockRetries(n, outcome) ==
  IF calls[n].fetches = 1
  THEN /\ calls' = [calls EXCEPT ![n].pc = "fetch", ![n].fetches = 2]
       /\ UNCHANGED <<userInput, responseData, isLoading, chatHistory,
                      chartType, logCall, now, ignored>>
  ELSE /\ appendMessage(errorMessage(now), n)
       /\ responseData' = Some([query_results |-> None, nl_explanation |-> None,
                                error |-> Some(ErrorText)])
       /\ finallyBlock
       /\ calls' = [calls EXCEPT ![n].pc = "returned", ![n].outcome = outcome]
       /\ UNCHANGED <<userInput, now, ignored>>

\* The catch block and the finally block: callBackendAPI returns, and the
\* handleSubmit that awaits it is resumed in a later microtask.
catchBlock(n, outcome) ==
  /\ appendMessage(errorMessage(now), n)
  /\ responseData' = Some([query_results |-> None, nl_explanation |-> None,
                           error |-> Some(ErrorText)])
  /\ finallyBlock
  /\ calls' = [calls EXCEPT ![n].pc = "returned", ![n].outcome = outcome]
  /\ UNCHANGED <<userInput, now, ignored>>

\* The fetch promise of invocation n rejects (no response).
fetchRejects(n) ==
  /\ calls[n].pc = "fetch"
  /\ catchBlock(n, "rejected")

\* The fetch promise of invocation n resolves with a response; !response.ok
\* throws into the catch block, otherwise response.json() is awaited.
fetchResolves(n, ok) ==
  /\ calls[n].pc = "fetch"
  /\ IF ok
     THEN /\ calls' = [calls EXCEPT ![n].pc = "json"]
          /\ UNCHANGED <<userInput, responseData, isLoading, chatHistory,
                         chartType, logCall, now, ignored>>
     ELSE catchBlock(n, "status")

\* response.json() of invocation n rejects: the body does not parse.
jsonRejects(n) ==
  /\ calls[n].pc = "json"
  /\ catchBlock(n, "unparsable")

\* response.json() of invocation n resolves with data: the success path and
\* the finally block; callBackendAPI returns.
jsonResolves(n, data) ==
  /\ calls[n].pc = "json"
  /\ responseData' = Some(data)
  /\ IF Truthy(data.nl_explanation)
     THEN appendMessage(systemMessage(now, data), n)
     ELSE UNCHANGED <<chatHistory, chartType, logCall>>
  /\ finallyBlock
  /\ calls' = [calls EXCEPT ![n].pc = "returned", ![n].outcome = "ok",
                            ![n].data = Some(data)]
  /\ UNCHANGED <<userInput, now, ignored>>

\* handleSubmit after `await callBackendAPI(userInput)`: setUserInput("").
resumeHandleSubmit(n) ==
  /\ calls[n].pc = "returned"
  /\ userInput' = <<>>
  /\ calls' = [calls EXCEPT ![n].pc = "done"]
  /\ UNCHANGED <<responseData, isLoading, chatHistory, chartType, logCall,
                 now, ignored>>

\* A button handler that steps to the next mode, whichever button was hit.
setChartTypeCycle(i, type) ==
  /\ View(i).controls # {}
  /\ type \in View(i).controls
  /\ chartType' = [chartType EXCEPT ![i] =
                     Some(CASE ModeOf(i) = "bar" -> "pie"
                            [] ModeOf(i) = "pie" -> "line"
                            [] OTHER -> "bar")]
  /\ UNCHANGED <<userInput, responseData, isLoading, chatHistory, calls,
                 logCall, now, ignored>>

\* A handler that sets one chart mode held by the page for all its charts.
setChartTypeShared(i, type) ==
  /\ View(i).controls # {}
  /\ type \in View(i).controls
  /\ chartType' = [j \in DOMAIN chartType |->
                     IF IsSome(chartType[j]) THEN Some(type) ELSE None]
  /\ UNCHANGED <<userInput, responseData, isLoading, chatHistory, calls,
                 logCall, now, ignored>>

\* onClick={() => setChartType(type)} of a mode button under message i.
setChartType(i, type) ==
  /\ View(i).controls # {}
  /\ type \in View(i).controls
  /\ chartType' = [chartType EXCEPT ![i] = Some(type)]
  /\ UNCHANGED <<userInput, responseData, isLoading, chatHistory, calls,
                 logCall, now, ignored>>

\* A millisecond passes.
Tick ==
  /\ now < MaxClock
  /\ now' = now + 1
  /\ UNCHANGED <<userInput, responseData, isLoading, chatHistory, chartType,
                 calls, logCall, ignored>>

\* No continuation of a handleSubmit is queued: the microtasks have run, and
\* the next event handler (a task) can.  Promise continuations are microtasks
\* and may run while one is queued.
TaskBoundary == \A n \in DOMAIN calls : calls[n].pc # "returned"

Next ==
  \/ TaskBoundary /\ handleSubmit
  \/ TaskBoundary /\ \E s \in Inputs : onChange(s)
  \/ \E n \in DOMAIN calls : fetchRejects(n)
  \/ \E n \in DOMAIN calls, ok \in BOOLEAN : fetchResolves(n, ok)
  \/ \E n \in DOMAIN calls : jsonRejects(n)
  \/ \E n \in DOMAIN calls, data \in Payloads : jsonResolves(n, data)
  \/ \E n \in DOMAIN calls : resumeHandleSubmit(n)
  \/ TaskBoundary /\ \E i \in DOMAIN chatHistory, type \in ChartModes :
                       setChartType(i, type)
  \/ Tick

Spec == Init /\ [][Next]_vars

\* A render has thrown: with no error boundary React unmounts the page.
Crashed == \E i \in DOMAIN chatHistory : View(i).kind = "throws"

\* The page is on screen: the user can act on it.
Mounted == ~Crashed

\* The page with a backend whose bodies break the row/column contract.  The
\* promise continuations are jobs of the JavaScript engine and run whether
\* or not the page is mounted.
NextRaw ==
  \/ Mounted /\ TaskBoundary /\ handleSubmit
  \/ Mounted /\ TaskBoundary /\ \E s \in Inputs : onChange(s)
  \/ \E n \in DOMAIN calls : fetchRejects(n)
  \/ \E n \in DOMAIN calls, ok \in BOOLEAN : fetchResolves(n, ok)
  \/ \E n \in DOMAIN calls : jsonRejects(n)
  \/ \E n \in DOMAIN calls, data \in MalformedPayloads : jsonResolves(n, data)
  \/ \E n \in DOMAIN calls : resumeHandleSubmit(n)
  \/ Mounted /\ TaskBoundary /\ \E i \in DOMAIN chatHistory, type \in ChartModes :
                                   setChartType(i, type)
  \/ Tick

RawSpec == Init /\ [][NextRaw]_vars

\* The promise that invocation n awaits settles (fetch, then response.json(),
\* then callBackendAPI itself).
Settle(n) ==
  /\ n \in DOMAIN calls
  /\ \/ fetchRejects(n)
     \/ \E ok \in BOOLEAN : fetchResolves(n, ok)
     \/ jsonRejects(n)
     \/ \E data \in Payloads : jsonResolves(n, data)
     \/ resumeHandleSubmit(n)

\* Every backend call eventually resolves: an awaited promise that can settle
\* does settle, and its continuation runs.
LiveSpec == Spec /\ \A n \in 1..MaxSubmits : WF_vars(Settle(n))

\* ------------------------------------------------------------- claims
\* The messages of the log that invocation n appended, by type.
Own(n, type) ==
  { i \in DOMAIN chatHistory : logCall[i] = n /\ chatHistory[i].type = type }

\* The backend call of invocation n has resolved and callBackendAPI has run
\* to its end.
Resolved(n) == calls[n].pc \in {"returned", "done"}

\* The cycle of submission n is complete: its handleSubmit has run to its end.
Completed(n) == calls[n].pc = "done"

Failed(n) == Resolved(n) /\ calls[n].outcome \in {"rejected", "status", "unparsable"}

IsPrefix(s, t) == Len(s) <= Len(t) /\ SubSeq(t, 1, Len(s)) = s

\* C1: each non-blank submission contributes exactly one user message to the
\* log and, once its backend call has resolved, exactly one system message,
\* whatever the outcome (a payload without nl_explanation included).
C1_OneUserOneSystem ==
  \A n \in DOMAIN calls :
    /\ Cardinality(Own(n, "user")) = 1
    /\ Resolved(n) => Cardinality(Own(n, "system")) = 1

\* C2: in the final log the user message of submission n precedes the system
\* message of submission n, and the messages of submission n precede those
\* of submission n+1.
C2_SubmissionOrder ==
  (\A n \in DOMAIN calls : Resolved(n)) =>
    \A i, j \in DOMAIN chatHistory :
      i < j =>
        /\ logCall[i] <= logCall[j]
        /\ logCall[i] = logCall[j] =>
             ~(chatHistory[i].type = "system" /\ chatHistory[j].type = "user")

\* C3: at most one backend request is in flight at any time.
C3_AtMostOneInFlight ==
  Cardinality({ n \in DOMAIN calls : ~Resolved(n) }) <= 1

\* C4: a submission whose call was rejected, got a non-success status or an
\* unparsable body has, once resolved, exactly two entries in the log: its
\* user message and, after it, one system message with the generic error
\* text and no attached result.
C4_FailureAppendsOneError ==
  \A n \in DOMAIN calls :
    Failed(n) =>
      /\ Cardinality(Own(n, "user")) = 1
      /\ Cardinality(Own(n, "system")) = 1
      /\ \A i \in Own(n, "user"), j \in Own(n, "system") :
           /\ i < j
           /\ chatHistory[j].content = ErrorText
           /\ chatHistory[j].responseData = None

\* C4 witness: the three kinds of failure are not needed at once; one failed
\* submission that has resolved and whose error message is in the log.
C4_Witness ==
  \E n \in DOMAIN calls :
    /\ Failed(n)
    /\ calls[n].outcome = "unparsable"
    /\ \E j \in Own(n, "system") : chatHistory[j].content = ErrorText

\* C5: a success status whose body carries an error field is surfaced as a
\* failure: a system failure message is appended for the submission and no
\* message with an attached result.
C5_CarriedErrorIsFailure ==
  \A n \in DOMAIN calls :
    (Resolved(n) /\ calls[n].outcome = "ok" /\ IsSome(Get(calls[n].data).error)) =>
      /\ \E j \in Own(n, "system") :
           chatHistory[j].content = ErrorText /\ chatHistory[j].responseData = None
      /\ \A j \in Own(n, "system") : chatHistory[j].responseData = None

\* C6: a submit event that finds the input empty or only whitespace issues no
\* backend call and leaves the log and the pending status as they were.
C6_BlankSubmitIsNoOp ==
  [][(Trim(userInput) = <<>> /\ handleSubmit) =>
       (calls' = calls /\ chatHistory' = chatHistory /\ isLoading' = isLoading)]_vars

\* C6 witness: a whitespace-only input was submitted while a request was
\* pending; the log holds the one message it held before.
C6_Witness ==
  /\ ignored
  /\ userInput = <<"\t">>
  /\ isLoading
  /\ Len(chatHistory) = 1
  /\ Len(calls) = 1

\* C7: the log is append-only: in every step the previous log is a prefix of
\* the new one.
C7_AppendOnly == [][IsPrefix(chatHistory, chatHistory')]_vars

\* C7 witness: two submissions have both resolved with a system message.
C7_Witness == Len(chatHistory) = 4 /\ \A n \in DOMAIN calls : Resolved(n)

\* C8: message ids are strictly increasing along the log, for any
\* non-decreasing clock readings.
C8_IdsStrictlyIncreasing ==
  \A i, j \in DOMAIN chatHistory :
    i < j => chatHistory[i].id < chatHistory[j].id

\* C9: what is shown for a result depends only on its row count: nothing for
\* zero rows; a scalar (column 0 label, column 1 value) with no chart and no
\* mode control for one row; a series with one point per row, in row order,
\* named by column 0 and valued by column 1, for two or more rows; and this
\* under every chart mode.
C9_ShapeByRowCount ==
  \A i \in DOMAIN chatHistory :
    HasResults(chatHistory[i]) =>
      LET rows == RowsOf(chatHistory[i]) IN
      \A mode \in {ModeOf(i)} \cup ChartModes :
        LET v == renderResult(chatHistory[i], mode) IN
        /\ Len(rows) = 0 =>
             v.kind = "none" /\ v.points = <<>> /\ v.chart = None /\ v.controls = {}
        /\ Len(rows) = 1 =>
             /\ v.kind = "scalar"
             /\ v.label = Some(rows[1].items[1])
             /\ v.value = Some(rows[1].items[2])
             /\ v.chart = None
             /\ v.controls = {}
        /\ Len(rows) >= 2 =>
             /\ v.kind = "chart"
             /\ Len(v.points) = Len(rows)
             /\ \A k \in DOMAIN rows :
                  v.points[k] = [name |-> rows[k].items[1], value |-> rows[k].items[2]]

\* C9 witness: the log shows a scalar under one message and a chart of
\* several points under another.
C9_Witness ==
  \E i, j \in DOMAIN chatHistory :
    /\ View(i).kind = "scalar"
    /\ View(j).kind = "chart"
    /\ Len(View(j).points) = MaxRows

\* C10: selecting a chart mode never alters the data: the message and the
\* points given to its chart are the same before and after the selection.
C10_ModeLeavesData ==
  [][\A i \in DOMAIN chatHistory :
       chartType'[i] # chartType[i] =>
         /\ chatHistory'[i] = chatHistory[i]
         /\ View(i)'.points = View(i).points]_vars

\* C10 witness: two charts, one switched to pie and one to line, each still
\* showing every row.
C10_Witness ==
  \E i, j \in DOMAIN chatHistory :
    /\ chartType[i] = Some("pie")
    /\ chartType[j] = Some("line")
    /\ Len(View(i).points) = MaxRows
    /\ Len(View(j).points) = MaxRows

\* C11: no failure is fatal: the step that resolves a failed cycle leaves the
\* status Idle and keeps every earlier message of the log, and in any state
\* after a failure a non-blank submission is accepted like any other: it
\* starts a call and appends its user message.
C11_AfterFailureAccepts ==
  (\E n \in DOMAIN calls : Failed(n)) /\ canSubmit(userInput) /\ Len(calls) < MaxSubmits
    => ENABLED (/\ handleSubmit
                /\ Len(calls') = Len(calls) + 1
                /\ chatHistory' = Append(chatHistory, userMessage(now, userInput))
                /\ isLoading')

C11_FailureStep ==
  \A n \in DOMAIN calls :
    (~Failed(n) /\ Failed(n)') =>
      /\ isLoading' = FALSE
      /\ IsPrefix(chatHistory, chatHistory')

C11_FailureNotFatal == []C11_AfterFailureAccepts /\ [][C11_FailureStep]_vars

\* C11 witness: the first submission failed; the second, made after that,
\* resolved with its system message; the log holds all four messages.
C11_Witness ==
  /\ Len(calls) = 2
  /\ Failed(1)
  /\ Resolved(2) /\ calls[2].outcome = "ok"
  /\ logCall = <<1, 1, 2, 2>>
  /\ ~isLoading

\* The shape of what is shown, without the chart mode.
Shape(v) == [kind |-> v.kind, label |-> v.label, value |-> v.value, points |-> v.points]

\* C12: the transformation is deterministic: any two messages with the same
\* rows are shown with the same shape and the same points in the same order,
\* whatever their chart modes, and what a message shows keeps its shape
\* through every step (log growth, pending status, mode selections).
C12_SameRowsSameShape ==
  \A i, j \in DOMAIN chatHistory :
    (HasResults(chatHistory[i]) /\ HasResults(chatHistory[j])
       /\ RowsOf(chatHistory[i]) = RowsOf(chatHistory[j]))
      => Shape(View(i)) = Shape(View(j))

C12_ShapeKept == \A i \in DOMAIN chatHistory : Shape(View(i))' = Shape(View(i))

C12_TransformDeterministic == []C12_SameRowsSameShape /\ [][C12_ShapeKept]_vars

\* C12 witness: two messages carry the same rows and are drawn in different
\* modes, one of them line.
C12_Witness ==
  \E i, j \in DOMAIN chatHistory :
    /\ HasResults(chatHistory[i]) /\ HasResults(chatHistory[j])
    /\ RowsOf(chatHistory[i]) = RowsOf(chatHistory[j])
    /\ Len(RowsOf(chatHistory[i])) = MaxRows
    /\ chartType[i] = Some("line")
    /\ chartType[j] = Some("bar")

\* C13: the user message of a submission carries the trimmed input text,
\* while the backend call is issued with the raw input.
C13_UserTextTrimmed ==
  \A n \in DOMAIN calls :
    \A i \in Own(n, "user") : chatHistory[i].content = Trim(calls[n].userInput)

\* C14: on a successful response with an explanation, the one system message
\* of a submission carries the explanation text and the result of that same
\* submission's response, under every interleaving.
C14_OwnResponse ==
  \A n \in DOMAIN calls :
    (Resolved(n) /\ calls[n].outcome = "ok"
       /\ Truthy(Get(calls[n].data).nl_explanation)) =>
      /\ Cardinality(Own(n, "system")) = 1
      /\ \A j \in Own(n, "system") :
           /\ chatHistory[j].content = Get(Get(calls[n].data).nl_explanation)
           /\ chatHistory[j].responseData = calls[n].data

\* C14 witness: two submissions overlapped, got different bodies and resolved
\* in the reverse order, each with its system message.
C14_Witness ==
  /\ Len(calls) = 2
  /\ logCall = <<1, 2, 2, 1>>
  /\ calls[1].outcome = "ok" /\ calls[2].outcome = "ok"
  /\ calls[1].data # calls[2].data

\* The messages of invocation n in the log after the step, by type.
OwnNext(n, type) ==
  { i \in DOMAIN chatHistory' : logCall'[i] = n /\ chatHistory'[i].type = type }

\* C15: completions are applied in the order they resolve: when the call of b
\* resolves, the system message of every call a resolved before it is before
\* the system message of b, and no later step moves a message.
C15_ResolveStep ==
  /\ IsPrefix(chatHistory, chatHistory') /\ IsPrefix(logCall, logCall')
  /\ \A a, b \in DOMAIN calls :
       (Resolved(a) /\ ~Resolved(b) /\ Resolved(b)') =>
         \A i \in OwnNext(a, "system"), j \in OwnNext(b, "system") : i < j

C15_AppliedInResolveOrder == [][C15_ResolveStep]_vars

\* C15 witness: the second submission resolved first and its system message
\* precedes that of the first.
C15_Witness ==
  /\ Len(calls) = 2 /\ Resolved(1) /\ Resolved(2)
  /\ logCall = <<1, 2, 2, 1>>
  /\ chatHistory[3].type = "system" /\ chatHistory[4].type = "system"

\* C16: a submission sets the status to Pending when it starts; the status is
\* set back to Idle when its call resolves, on the success path and on the
\* failure path alike; and, every call eventually resolving, every submission
\* is eventually followed by an Idle status.
C16_StatusStep ==
  /\ Len(calls') > Len(calls) => isLoading' = TRUE
  /\ \A n \in DOMAIN calls : (~Resolved(n) /\ Resolved(n)') => isLoading' = FALSE

\* Submission n has started and not resolved / has resolved with status Idle.
C16_Pending(n) == IF n \in DOMAIN calls THEN ~Resolved(n) ELSE FALSE

C16_ResolvedIdle(n) == IF n \in DOMAIN calls THEN Resolved(n) /\ ~isLoading ELSE FALSE

C16_PendingThenIdle ==
  /\ [][C16_StatusStep]_vars
  /\ \A n \in 1..MaxSubmits : C16_Pending(n) ~> C16_ResolvedIdle(n)

\* C16 witness: one submission resolved on the failure path and one on the
\* success path, and the status is Idle.
C16_Witness ==
  /\ Len(calls) = 2
  /\ Failed(1)
  /\ Resolved(2) /\ calls[2].outcome = "ok"
  /\ isLoading = FALSE

\* C17: the pending flag agrees with the requests in flight: isLoading is
\* true if and only if some issued request has not yet resolved.
C17_LoadingIffInFlight ==
  isLoading <=> (\E n \in DOMAIN calls : ~Resolved(n))

\* C18: the chart mode is a state machine over {bar, pie, line}: a mounted
\* chart always holds one of the three; a new one starts in bar; from every
\* mode every mode can be selected and the mode then is exactly the selected
\* one; and a step that changes a mode is a selection on a chart whose
\* buttons are shown: it changes no log, call, status or input, so no
\* submission or completion alters a mode.
C18_ModeInv ==
  \A i \in DOMAIN chatHistory :
    /\ chartType[i] \in {None} \cup { Some(m) : m \in ChartModes }
    /\ Mounts(chatHistory[i]) <=> IsSome(chartType[i])
    /\ View(i).controls # {} =>
         \A type \in ChartModes :
           ENABLED (setChartType(i, type) /\ chartType'[i] = Some(type))

C18_ModeStep ==
  /\ \A i \in DOMAIN chatHistory :
       chartType'[i] # chartType[i] =>
         /\ View(i).controls # {}
         /\ UNCHANGED <<chatHistory, calls, isLoading, responseData, userInput, logCall>>
  /\ \A i \in DOMAIN chatHistory' \ DOMAIN chatHistory :
       chartType'[i] \in {None, Some("bar")}

C18_ChartModeMachine == []C18_ModeInv /\ [][C18_ModeStep]_vars

\* C18 witness: a chart was switched to line, and a later submission has
\* started and resolved since, leaving it in line.
C18_Witness ==
  /\ Len(chatHistory) = 4
  /\ logCall = <<1, 1, 2, 2>>
  /\ chartType[2] = Some("line")
  /\ Resolved(2)

\* C19: the chart mode is local to each message: a selection changes the mode
\* of one message and of no other, and a newly appended series message
\* starts in bar whatever the modes of the messages before it.
C19_LocalStep ==
  /\ \A i, j \in DOMAIN chatHistory :
       (i # j /\ chartType'[i] # chartType[i]) => chartType'[j] = chartType[j]
  /\ \A i \in DOMAIN chatHistory' \ DOMAIN chatHistory :
       Mounts(chatHistory'[i]) => chartType'[i] = Some("bar")

C19_ModeIsLocal == [][C19_LocalStep]_vars

\* C19 witness: two charts in the log, the older switched to pie, the newer
\* in bar.
C19_Witness ==
  \E i, j \in DOMAIN chatHistory :
    /\ i < j
    /\ View(i).kind = "chart" /\ View(j).kind = "chart"
    /\ chartType[i] = Some("pie")
    /\ chartType[j] = Some("bar")

\* C20: for a one-row result whose column 1 is not numeric, the scalar is
\* displayed with value 0 rather than the raw value.
C20_NonNumericShownAsZero ==
  \A i \in DOMAIN chatHistory :
    (HasResults(chatHistory[i]) /\ Len(RowsOf(chatHistory[i])) = 1
       /\ RowsOf(chatHistory[i])[1].items[2].t # "number")
      => View(i).value = Some(Num(0))

\* The requests issued by the first n invocations.
RECURSIVE FetchesIssued(_)
FetchesIssued(n) == IF n = 0 THEN 0 ELSE calls[n].fetches + FetchesIssued(n - 1)

UserMessages == { i \in DOMAIN chatHistory : chatHistory[i].type = "user" }

\* C22: no automatic retries: every invocation issues exactly one backend
\* request, whether it succeeds or fails, a blank submit issues none, and the
\* number of requests issued always equals the number of user messages in
\* the log.
C22_OneCallPerSubmission ==
  /\ \A n \in DOMAIN calls : calls[n].fetches = 1
  /\ FetchesIssued(Len(calls)) = Cardinality(UserMessages)

\* C22 witness: a blank submit was ignored, one submission failed and one
\* succeeded, and two requests were issued for the two user messages.
C22_Witness ==
  /\ ignored
  /\ Len(calls) = 2
  /\ Failed(1)
  /\ Resolved(2) /\ calls[2].outcome = "ok"
  /\ FetchesIssued(2) = 2
  /\ Cardinality(UserMessages) = 2

\* The step is an edit of the input field by the user.
C23_UserEdit == \E s \in Inputs : onChange(s)

\* C23: while the cycle of a submission is not complete no step but an edit
\* by the user changes the input field, and the step that completes the
\* cycle leaves the field empty, whatever it held.
C23_FieldStep ==
  \A n \in DOMAIN calls :
    /\ (~Completed(n) /\ ~Completed(n)' /\ ~C23_UserEdit) => userInput' = userInput
    /\ (~Completed(n) /\ Completed(n)') => userInput' = <<>>

C23_FieldKeptUntilOwnCompletion == [][C23_FieldStep]_vars

\* The same, for a submission that is the only one whose cycle is not
\* complete.
C23_AloneStep ==
  \A n \in DOMAIN calls :
    (\A m \in DOMAIN calls : m # n => Completed(m)) =>
      /\ (~Completed(n) /\ ~Completed(n)' /\ ~C23_UserEdit) => userInput' = userInput
      /\ (~Completed(n) /\ Completed(n)') => userInput' = <<>>

C23_FieldKeptWhenAlone == [][C23_AloneStep]_vars

\* C21: a result that breaks the row/column contract (not a sequence of
\* rows, a row that is not a sequence, a row that lacks columns) never raises
\* an error in the rendering path: every message of the log is rendered, as
\* nothing, as a scalar or as a chart.
C21_MalformedNeverThrows ==
  \A i \in DOMAIN chatHistory : View(i).kind \in {"none", "scalar", "chart"}

====
